---- MODULE Spec2Model ----
(***************************************************************************)
(* Model of src/src/check_type.rs: the static type-and-shape checker of a  *)
(* stack-based array language.  check_type seeds an abstract stack from    *)
(* the input values and feeds the function's instructions one by one to    *)
(* TypeEnv::instr, which either updates the stack and the list of open     *)
(* array markers or bails out with None.                                   *)
(***************************************************************************)
EXTENDS Integers, Sequences, FiniteSets

VARIABLES
    inputs,   \* check_type's `inputs` slice, bottom-to-top
    f,        \* f.instrs, the instruction sequence of the function
    pc,       \* position of the `for instr in &f.instrs` loop (1-based)
    stack,    \* env.stack : Vec<Type>, tail = top
    array,    \* env.array : Vec<usize>, the open array markers
    items,    \* the local `items` of the most recent EndArray
    popped,   \* what the most recent TypeEnv::pop returned, None before any
    result    \* "running", "none" (None), "some" (Some(env.stack)), "panic"

vars == <<inputs, f, pc, stack, array, items, popped, result>>

(***************************************************************************)
(* Bounds of the model.                                                    *)
(***************************************************************************)
MaxWords == 4
MaxInputs == 1
MaxPopWords == 4
MaxBoxDepth == 2

(***************************************************************************)
(* Option<T>: None is the empty sequence, Some(x) the one-element one.     *)
(***************************************************************************)
None == <<>>
Some(x) == <<x>>

(***************************************************************************)
(* ValueType and Type.  Derived PartialEq is structural equality, which is *)
(* equality of these records.                                              *)
(***************************************************************************)
Num == [tag |-> "Num", inner |-> <<>>]
Char == [tag |-> "Char", inner |-> <<>>]
Function == [tag |-> "Function", inner |-> <<>>]
Unknown == [tag |-> "Unknown", inner |-> <<>>]
Box(ty) == [tag |-> "Box", inner |-> <<ty>>]

Type(value, shape) == [value |-> value, shape |-> shape]

TypeDefault == Type(Unknown, None)

new(value, dims) == Type(value, Some(dims))

\* mutant: the box keeps a (scalar) shape for its contents
unknown_shape_scalar(value) == Type(value, Some(<<>>))

unknown_shape(value) == Type(value, None)

(***************************************************************************)
(* Concrete values.  Only the variant, the shape and, for a function       *)
(* value, the boxed contents are read by the checker; the data is not.     *)
(***************************************************************************)
Value(kind, shape, boxed) == [kind |-> kind, shape |-> shape, boxed |-> boxed]

as_boxed(val) == val.boxed

NumScalar == Value("Num", <<>>, None)
ByteScalar == Value("Byte", <<>>, None)
CharScalar == Value("Char", <<>>, None)
NumVec == Value("Num", <<2>>, None)
FuncScalar == Value("Func", <<>>, None)
BoxedNumVec == Value("Func", <<>>, Some(NumVec))

\* mutant: a boxed value is not looked into
from_value_flat(val) ==
    Type(CASE val.kind \in {"Num", "Byte"} -> Num
           [] val.kind = "Char" -> Char
           [] val.kind = "Func" -> Function,
         Some(val.shape))

RECURSIVE from_value(_)
from_value(val) ==
    Type(CASE val.kind \in {"Num", "Byte"} -> Num
           [] val.kind = "Char" -> Char
           [] val.kind = "Func" ->
                IF as_boxed(val) # None
                THEN Box(from_value(as_boxed(val)[1]))
                ELSE Function,
         Some(val.shape))

(***************************************************************************)
(* Instructions.  Prim stands for every variant other than Push,           *)
(* BeginArray and EndArray.                                                *)
(***************************************************************************)
Push(val) == [op |-> "Push", val |-> Some(val), boxed |-> FALSE]
BeginArray == [op |-> "BeginArray", val |-> None, boxed |-> FALSE]
EndArray(boxed) == [op |-> "EndArray", val |-> None, boxed |-> boxed]
Prim == [op |-> "Prim", val |-> None, boxed |-> FALSE]

PushValues == {NumScalar, CharScalar, NumVec}
InputValues == {NumScalar, ByteScalar, BoxedNumVec}

(***************************************************************************)
(* The bounded set of functions: every sequence of at most MaxWords words, *)
(* a word being one instruction, one of two array literals or a pair of    *)
(* pushes.                                                                 *)
(***************************************************************************)
EmptyLit == <<BeginArray, EndArray(FALSE)>>
MixedLit == <<BeginArray, Push(NumScalar), Push(NumVec), EndArray(FALSE)>>
TwoPush == <<Push(NumScalar), Push(NumScalar)>>

Words ==
    {<<Push(v)>> : v \in PushValues}
        \cup {<<BeginArray>>, <<EndArray(TRUE)>>, <<EndArray(FALSE)>>, <<Prim>>}
        \cup {EmptyLit, MixedLit, TwoPush}

RECURSIVE Flatten(_)
Flatten(ws) == IF ws = <<>> THEN <<>> ELSE Head(ws) \o Flatten(Tail(ws))

SeqsUpTo(S, n) == UNION {[1..k -> S] : k \in 0..n}

Functions == {Flatten(ws) : ws \in SeqsUpTo(Words, MaxWords)}

InputLists == SeqsUpTo(InputValues, MaxInputs)

(***************************************************************************)
(* Helpers of TypeEnv::instr.                                              *)
(***************************************************************************)
push(stk, ty) == Append(stk, ty)

\* mutant: the items are taken off the top one by one, top first
split_off_popped(stk, at) == [k \in 1..(Len(stk) - at) |-> stk[Len(stk) + 1 - k]]

\* Vec::split_off(at): the kept prefix and the returned tail
split_off_keep(stk, at) == SubSeq(stk, 1, at)
split_off(stk, at) == SubSeq(stk, at + 1, Len(stk))

\* slice::windows(2)
windows(s) == [k \in 1..(Len(s) - 1) |-> <<s[k], s[k + 1]>>]

\* mutant: only the first pair is compared
all_equal_first_pair(its) == Len(its) < 2 \/ its[1] = its[2]

\* items.windows(2).all(|w| w[0] == w[1])
all_equal(its) == \A k \in DOMAIN windows(its) : windows(its)[k][1] = windows(its)[k][2]

\* items.windows(2).all(|w| w[0].shape == w[1].shape)
all_equal_shape(its) ==
    \A k \in DOMAIN windows(its) : windows(its)[k][1].shape = windows(its)[k][2].shape

\* mutant: the first item's value is taken without the homogeneity test
unified_value_first(its, boxed) ==
    IF Len(its) > 0 THEN its[1].value
    ELSE IF boxed THEN Unknown ELSE Num

\* mutant: an empty boxed array defaults to Num like a non-boxed one
unified_value_num(its, boxed) ==
    IF all_equal(its)
    THEN IF Len(its) > 0 THEN its[1].value ELSE Num
    ELSE Unknown

\* lines 82-92
unified_value(its, boxed) ==
    IF all_equal(its)
    THEN IF Len(its) > 0 THEN its[1].value
         ELSE IF boxed THEN Unknown ELSE Num
    ELSE Unknown

\* mutant: the length is appended as the last dimension, not inserted first
unboxed_shape_append(its) ==
    LET shape == IF all_equal_shape(its)
                 THEN IF Len(its) > 0 THEN its[1].shape ELSE None
                 ELSE None
    IN  IF shape # None THEN Some(shape[1] \o <<Len(its)>>) ELSE None

\* lines 97-104: shape.insert(0, items.len()) on the common item shape
unboxed_shape(its) ==
    LET shape == IF all_equal_shape(its)
                 THEN IF Len(its) > 0 THEN its[1].shape ELSE None
                 ELSE None
    IN  IF shape # None THEN Some(<<Len(its)>> \o shape[1]) ELSE None

\* mutant: a boxed array keeps the item shape like a non-boxed one
end_array_type_keeps_shape(its, boxed) ==
    IF boxed
    THEN Type(Box(unknown_shape(unified_value(its, boxed))), unboxed_shape(its))
    ELSE Type(unified_value(its, boxed), unboxed_shape(its))

\* lines 93-106: the Type pushed by EndArray
end_array_type(its, boxed) ==
    IF boxed
    THEN Type(Box(unknown_shape(unified_value(its, boxed))), Some(<<Len(its)>>))
    ELSE Type(unified_value(its, boxed), unboxed_shape(its))

(***************************************************************************)
(* check_type: seeding, then one action per instruction kind.              *)
(***************************************************************************)
\* mutant: the inputs are not pushed
seed_empty(ins) == <<>>

seed(ins) == [k \in 1..Len(ins) |-> from_value(ins[k])]

Init ==
    /\ inputs \in InputLists
    /\ f \in Functions
    /\ pc = 1
    /\ stack = seed(inputs)
    /\ array = <<>>
    /\ items = <<>>
    /\ popped = None
    /\ result = "running"

Fetch(op) == result = "running" /\ pc <= Len(f) /\ f[pc].op = op

InstrPush ==
    /\ Fetch("Push")
    /\ stack' = push(stack, from_value(f[pc].val[1]))
    /\ pc' = pc + 1
    /\ UNCHANGED <<popped, inputs, f, array, items, result>>

\* mutant: the marker records the number of open arrays, not the stack depth
InstrBeginArrayDepth ==
    /\ Fetch("BeginArray")
    /\ array' = Append(array, Len(array))
    /\ pc' = pc + 1
    /\ UNCHANGED <<popped, inputs, f, stack, items, result>>

InstrBeginArray ==
    /\ Fetch("BeginArray")
    /\ array' = Append(array, Len(stack))
    /\ pc' = pc + 1
    /\ UNCHANGED <<popped, inputs, f, stack, items, result>>

\* mutant: a missing marker is read as depth 0 instead of bailing
InstrEndArrayDefault ==
    /\ Fetch("EndArray")
    /\ LET bottom == IF array = <<>> THEN 0 ELSE array[Len(array)]
       IN  /\ array' = SubSeq(array, 1, Len(array) - 1)
           /\ items' = split_off(stack, bottom)
           /\ stack' = push(split_off_keep(stack, bottom),
                            end_array_type(split_off(stack, bottom), f[pc].boxed))
           /\ pc' = pc + 1
           /\ UNCHANGED <<popped, inputs, f, result>>

\* mutant: the oldest marker is taken, not the most recent
InstrEndArrayFifo ==
    /\ Fetch("EndArray")
    /\ IF array = <<>>
       THEN /\ result' = "none"
            /\ UNCHANGED <<popped, inputs, f, pc, stack, array, items>>
       ELSE /\ array' = Tail(array)
            /\ items' = split_off(stack, array[1])
            /\ stack' = push(split_off_keep(stack, array[1]),
                             end_array_type(split_off(stack, array[1]), f[pc].boxed))
            /\ pc' = pc + 1
            /\ UNCHANGED <<popped, inputs, f, result>>

InstrEndArray ==
    /\ Fetch("EndArray")
    /\ IF array = <<>>
       THEN /\ result' = "none"
            /\ UNCHANGED <<popped, inputs, f, pc, stack, array, items>>
       ELSE LET bottom == array[Len(array)]
            IN  IF bottom > Len(stack)
                THEN /\ result' = "panic"
                     /\ array' = SubSeq(array, 1, Len(array) - 1)
                     /\ UNCHANGED <<popped, inputs, f, pc, stack, items>>
                ELSE /\ array' = SubSeq(array, 1, Len(array) - 1)
                     /\ items' = split_off(stack, bottom)
                     /\ stack' = push(split_off_keep(stack, bottom),
                                      end_array_type(split_off(stack, bottom),
                                                     f[pc].boxed))
                     /\ pc' = pc + 1
                     /\ UNCHANGED <<popped, inputs, f, result>>

\* mutant: an unmodelled instruction is skipped
InstrOtherSkip ==
    /\ result = "running"
    /\ pc <= Len(f)
    /\ f[pc].op \notin {"Push", "BeginArray", "EndArray"}
    /\ pc' = pc + 1
    /\ UNCHANGED <<popped, inputs, f, stack, array, items, result>>

InstrOther ==
    /\ result = "running"
    /\ pc <= Len(f)
    /\ f[pc].op \notin {"Push", "BeginArray", "EndArray"}
    /\ result' = "none"
    /\ UNCHANGED <<popped, inputs, f, pc, stack, array, items>>

\* mutant: a function that leaves an array open is rejected
ReturnBalanced ==
    /\ result = "running"
    /\ pc > Len(f)
    /\ result' = IF array = <<>> THEN "some" ELSE "none"
    /\ UNCHANGED <<popped, inputs, f, pc, stack, array, items>>

Return ==
    /\ result = "running"
    /\ pc > Len(f)
    /\ result' = "some"
    /\ UNCHANGED <<popped, inputs, f, pc, stack, array, items>>

Next == InstrPush \/ InstrBeginArray \/ InstrEndArray \/ InstrOther \/ Return

Spec == Init /\ [][Next]_vars

(***************************************************************************)
(* TypeEnv::pop.  check_type never calls it; it is the operation a         *)
(* primitive handler is meant to use, so it is modelled as a call that may *)
(* come between any two instructions of a running analysis.                *)
(***************************************************************************)
Min(a, b) == IF a < b THEN a ELSE b

\* mutant: the markers are left as they are
clamp_none(arr, n) == arr

\* lines 125-127: *arr = (*arr).min(self.stack.len())
clamp(arr, n) == [k \in DOMAIN arr |-> Min(arr[k], n)]

\* mutant: self.stack.pop().unwrap()
PopUnwrap ==
    /\ result = "running"
    /\ IF stack = <<>>
       THEN /\ result' = "panic"
            /\ UNCHANGED <<popped, inputs, f, pc, stack, array, items>>
       ELSE /\ popped' = Some(stack[Len(stack)])
            /\ stack' = SubSeq(stack, 1, Len(stack) - 1)
            /\ array' = clamp(array, Len(stack) - 1)
            /\ UNCHANGED <<inputs, f, pc, items, result>>

Pop ==
    /\ result = "running"
    /\ popped' = Some(IF stack = <<>> THEN TypeDefault ELSE stack[Len(stack)])
    /\ stack' = IF stack = <<>> THEN <<>> ELSE SubSeq(stack, 1, Len(stack) - 1)
    /\ array' = clamp(array, Len(stack'))
    /\ UNCHANGED <<inputs, f, pc, items, result>>

\* the functions and input lists pop is exercised on
PopWords ==
    {<<Push(NumScalar)>>, <<Push(CharScalar)>>, <<BeginArray>>,
     <<EndArray(TRUE)>>, <<EndArray(FALSE)>>, <<Prim>>}

PopFunctions == {Flatten(ws) : ws \in SeqsUpTo(PopWords, MaxPopWords)}

PopInputLists == SeqsUpTo({NumScalar}, MaxInputs)

InitPop ==
    /\ inputs \in PopInputLists
    /\ f \in PopFunctions
    /\ pc = 1
    /\ stack = seed(inputs)
    /\ array = <<>>
    /\ items = <<>>
    /\ popped = None
    /\ result = "running"

NextPop == InstrPush \/ InstrBeginArray \/ InstrEndArray \/ InstrOther \/ Return \/ Pop

SpecPop == InitPop /\ [][NextPop]_vars

TypeOK ==
    /\ pc \in 1..(Len(f) + 1)
    /\ result \in {"running", "none", "some", "panic"}
    /\ \A k \in DOMAIN array : array[k] <= Len(stack)
(***************************************************************************)
(* Vocabulary of the properties.                                           *)
(***************************************************************************)
Top(s) == s[Len(s)]

\* EndArray{boxed: b} is about to run with a marker open
Closing(b) == Fetch("EndArray") /\ f[pc].boxed = b /\ array # <<>>

\* the items above the most recent marker, and the stack below it
Above == SubSeq(stack, array[Len(array)] + 1, Len(stack))
Below == SubSeq(stack, 1, array[Len(array)])

\* the last instruction that completed was EndArray{boxed: b}
Closed(b) == pc > 1 /\ f[pc - 1] = EndArray(b)

Same(its) == \A j, k \in DOMAIN its : its[j] = its[k]
SameShape(its) == \A j, k \in DOMAIN its : its[j].shape = its[k].shape

\* C1: a function that contains an instruction other than Push, BeginArray
\* and EndArray, at any position, never ends with a stack: once check_type
\* has stopped, its result is None.
BailPropagation ==
    (result # "running"
        /\ \E k \in DOMAIN f : f[k].op \notin {"Push", "BeginArray", "EndArray"})
    => result = "none"

BailPropagationWitness ==
    /\ result = "none"
    /\ pc > 1
    /\ f[pc].op = "Prim"
    /\ stack # <<>>

\* C2: EndArray with no open marker makes check_type return None, and that
\* step neither splits the stack nor pushes to it.
EndArrayUnderflowBails ==
    [][(Fetch("EndArray") /\ array = <<>>)
        => (result' = "none" /\ stack' = stack /\ array' = array
            /\ items' = items)]_vars

EndArrayUnderflowWitness ==
    /\ result = "none"
    /\ f[pc].op = "EndArray"
    /\ array = <<>>
    /\ stack # <<>>

\* C3 (as claimed): EndArray{boxed: false} over zero items pushes
\* Type{Num, shape: Some([0])}.
EmptyUnboxedClaim ==
    [][(Closing(FALSE) /\ Above = <<>>)
        => stack' = Append(stack, new(Num, <<0>>))]_vars

\* C4: EndArray{boxed: true} over zero items adds exactly one Type,
\* Type{Box(Type{Unknown, None}), shape: Some([0])}, to the stack.
EmptyBoxed ==
    [][(Closing(TRUE) /\ Above = <<>>)
        => stack' = Append(stack, new(Box(Type(Unknown, None)), <<0>>))]_vars

EmptyBoxedWitness ==
    /\ Closed(TRUE)
    /\ items = <<>>
    /\ Len(stack) > 1
    /\ Top(stack) = new(Box(Type(Unknown, None)), <<0>>)

\* C5: EndArray{boxed: false} over N >= 1 items that all have the same Type
\* (value V, shape S) pushes value V with shape [N] ++ S (and with no shape
\* when the items have none).
HomogeneousUnboxed ==
    [][(Closing(FALSE) /\ Above # <<>> /\ Same(Above))
        => stack' = Append(Below,
                Type(Above[1].value,
                     IF Above[1].shape = None THEN None
                     ELSE Some(<<Len(Above)>> \o Above[1].shape[1])))]_vars

HomogeneousUnboxedWitness ==
    /\ Closed(FALSE)
    /\ Len(items) = 2
    /\ items[1] = new(Num, <<2>>)
    /\ items[2] = new(Num, <<2>>)
    /\ Top(stack) = new(Num, <<2, 2>>)

\* C6: EndArray{boxed: false} over items that do not all have the same Type
\* pushes value Unknown; the shape is [N] ++ S when all items have the same
\* present shape S, and absent otherwise.
HeterogeneousUnboxed ==
    [][(Closing(FALSE) /\ ~Same(Above))
        => stack' = Append(Below,
                Type(Unknown,
                     IF SameShape(Above) /\ Above[1].shape # None
                     THEN Some(<<Len(Above)>> \o Above[1].shape[1])
                     ELSE None))]_vars

HeterogeneousUnboxedWitness ==
    /\ Closed(FALSE)
    /\ items = <<new(Num, <<>>), new(Num, <<2>>)>>
    /\ Top(stack) = Type(Unknown, None)

\* C7: EndArray{boxed: true} pushes a Type whose shape is Some([item count]),
\* whatever the items and their shapes are.
BoxedShape ==
    [][Closing(TRUE)
        => (Len(stack') = Len(Below) + 1
            /\ Top(stack').shape = Some(<<Len(Above)>>))]_vars

BoxedShapeWitness ==
    /\ Closed(TRUE)
    /\ Len(items) = 2
    /\ items[1].shape = None
    /\ items[2].shape = Some(<<2>>)
    /\ Top(stack).shape = Some(<<2>>)

\* C8: EndArray{boxed: true} pushes value Box(T), T having no shape and the
\* value of the first item when all items are equal, Unknown when they are
\* not or when there is none.
BoxedValue ==
    [][Closing(TRUE)
        => Top(stack').value =
               Box(Type(IF Above # <<>> /\ Same(Above)
                        THEN Above[1].value ELSE Unknown,
                        None))]_vars

BoxedValueWitness ==
    /\ Closed(TRUE)
    /\ items = <<new(Num, <<2>>), new(Num, <<2>>)>>
    /\ Top(stack) = new(Box(Type(Num, None)), <<2>>)

\* the scenarios; the literals' data is not part of the model
Scenario9 == <<Push(NumScalar), BeginArray, Push(NumScalar), EndArray(FALSE)>>
Scenario10 == <<Push(NumScalar), Push(CharScalar), BeginArray, EndArray(FALSE)>>

\* C9 (as claimed): on inputs [numeric] the function [Push, BeginArray, Push,
\* EndArray{boxed: false}] returns exactly the two entries
\* [Type{Num, []}, Type{Num, [1]}].
Scenario9Claim ==
    (inputs = <<NumScalar>> /\ f = Scenario9 /\ result # "running")
    => (result = "some" /\ stack = <<new(Num, <<>>), new(Num, <<1>>)>>)

\* C9 (amended): it returns the three entries
\* [Type{Num, []}, Type{Num, []}, Type{Num, [1]}]: the seeded input, the
\* literal pushed before BeginArray, and the length-1 array.
Scenario9Result ==
    (inputs = <<NumScalar>> /\ f = Scenario9 /\ result # "running")
    => (result = "some"
        /\ stack = <<new(Num, <<>>), new(Num, <<>>), new(Num, <<1>>)>>)

Scenario9Witness ==
    inputs = <<NumScalar>> /\ f = Scenario9 /\ result = "some"

\* C10 (as claimed): in [Push num, Push char, BeginArray, EndArray{boxed:
\* false}] the Type added by EndArray has value Unknown and shape Some([2]).
Scenario10Claim ==
    (f = Scenario10 /\ result # "running")
    => (result = "some" /\ Top(stack) = new(Unknown, <<2>>))

\* C10 (amended): EndArray closes an array over zero items, the two pushed
\* Types staying on the stack beneath it; the Type it adds has value Num and
\* no shape.
Scenario10Result ==
    (f = Scenario10 /\ result # "running")
    => (result = "some"
        /\ items = <<>>
        /\ stack = seed(inputs)
                     \o <<new(Num, <<>>), new(Char, <<>>), Type(Num, None)>>)

Scenario10Witness ==
    f = Scenario10 /\ result = "some" /\ inputs = <<>>
\* C11: pop never fails.  On an empty stack it returns the default Type
\* {Unknown, None} and leaves the stack empty, however often it is repeated;
\* on a non-empty stack it returns the tail and shortens the stack by one.
\* A pop is the step of a running analysis that keeps the loop position and
\* does not return.
UnderflowSafePop ==
    [][(result = "running" /\ pc' = pc /\ result' \notin {"none", "some"})
        => /\ result' = "running"
           /\ IF stack = <<>>
              THEN popped' = Some(Type(Unknown, None)) /\ stack' = <<>>
              ELSE /\ popped' = Some(Top(stack))
                   /\ stack' = SubSeq(stack, 1, Len(stack) - 1)]_vars

\* the single seeded Type was popped, and then the empty stack was popped
UnderflowSafePopWitness ==
    /\ result = "running"
    /\ pc = 1
    /\ Len(inputs) = 1
    /\ stack = <<>>
    /\ popped = Some(Type(Unknown, None))

\* C12: in every state reached by Push, BeginArray, EndArray and pop, every
\* marker in open_arrays is at most the stack length, and EndArray's
\* split_off never fails.
MarkerBound ==
    /\ \A k \in DOMAIN array : array[k] <= Len(stack)
    /\ result # "panic"

\* the marker recorded at depth 1 was clamped to 0: the Num below it was
\* popped after the Char above it
MarkerBoundWitness ==
    /\ inputs = <<>>
    /\ pc = 4
    /\ SubSeq(f, 1, 3) = <<Push(NumScalar), BeginArray, Push(CharScalar)>>
    /\ stack = <<>>
    /\ array = <<0>>
    /\ popped = Some(new(Num, <<>>))
(***************************************************************************)
(* Reference model of the runtime, shapes only: Push pushes the literal, a *)
(* non-boxed array of N items of common shape S has shape [N] ++ S, an     *)
(* empty one has shape [0], a boxed array of N items has shape [N].  An    *)
(* array over items of differing shapes has no defined shape (None), and   *)
(* neither has an array over such an item.  The result is None when the    *)
(* function cannot be run at all.                                          *)
(***************************************************************************)
runtime_array(its, boxed) ==
    IF boxed THEN Some(<<Len(its)>>)
    ELSE IF its = <<>> THEN Some(<<0>>)
    ELSE IF its[1] # None /\ \A k \in DOMAIN its : its[k] = its[1]
         THEN Some(<<Len(its)>> \o its[1][1])
         ELSE None

RECURSIVE runtime(_, _, _, _)
runtime(instrs, k, rt, marks) ==
    IF k > Len(instrs) THEN Some(rt)
    ELSE CASE instrs[k].op = "Push" ->
                runtime(instrs, k + 1, Append(rt, Some(instrs[k].val[1].shape)), marks)
           [] instrs[k].op = "BeginArray" ->
                runtime(instrs, k + 1, rt, Append(marks, Len(rt)))
           [] instrs[k].op = "EndArray" ->
                IF marks = <<>> THEN None
                ELSE LET d == marks[Len(marks)]
                     IN  runtime(instrs, k + 1,
                                 Append(SubSeq(rt, 1, d),
                                        runtime_array(SubSeq(rt, d + 1, Len(rt)),
                                                      instrs[k].boxed)),
                                 SubSeq(marks, 1, Len(marks) - 1))
           [] OTHER -> None

RuntimeShapes(instrs, ins) ==
    runtime(instrs, 1, [k \in 1..Len(ins) |-> Some(ins[k].shape)], <<>>)

\* C13: when check_type returns a stack, it has one entry per runtime value
\* and every shape it reports as present is the shape of that value in the
\* reference run of the same function on the same inputs.
Soundness ==
    result = "some"
    => /\ RuntimeShapes(f, inputs) # None
       /\ Len(RuntimeShapes(f, inputs)[1]) = Len(stack)
       /\ \A k \in DOMAIN stack :
            stack[k].shape # None
            => stack[k].shape = RuntimeShapes(f, inputs)[1][k]

SoundnessWitness ==
    /\ result = "some"
    /\ inputs # <<>>
    /\ Len(stack) >= 3
    /\ Top(stack).shape = Some(<<1, 2>>)
    /\ \E k \in DOMAIN stack : stack[k].shape = None
(***************************************************************************)
(* from_value over every kind of value: the values of the four variants    *)
(* with a few shapes, function values boxing one another up to MaxBoxDepth *)
(* deep.  They are fed to from_value as inputs and as Push literals.       *)
(***************************************************************************)
ValueShapes == {<<>>, <<0>>, <<2, 3>>}

RECURSIVE ValuesUpTo(_)
ValuesUpTo(d) ==
    {Value(kind, sh, None) : kind \in {"Num", "Byte", "Char", "Func"}, sh \in ValueShapes}
        \cup (IF d = 0 THEN {}
              ELSE {Value("Func", sh, Some(v)) : sh \in ValueShapes, v \in ValuesUpTo(d - 1)})

DeepValues == ValuesUpTo(MaxBoxDepth)

InitValues ==
    /\ inputs \in {<<>>} \cup {<<v>> : v \in DeepValues}
    /\ f \in {<<>>} \cup {<<Push(v)>> : v \in DeepValues}
    /\ pc = 1
    /\ stack = seed(inputs)
    /\ array = <<>>
    /\ items = <<>>
    /\ popped = None
    /\ result = "running"

NextValues == InstrPush \/ Return

SpecValues == InitValues /\ [][NextValues]_vars

\* ty is the Type of value v: Num for numbers and bytes, Char for
\* characters, Function for a function that boxes nothing, Box of the Type
\* of the contents for one that does; the shape is the value's, present.
RECURSIVE Describes(_, _)
Describes(ty, v) ==
    /\ ty.shape = Some(v.shape)
    /\ CASE v.kind \in {"Num", "Byte"} -> ty.value = Num
         [] v.kind = "Char" -> ty.value = Char
         [] v.kind = "Func" /\ v.boxed = None -> ty.value = Function
         [] v.kind = "Func" /\ v.boxed # None ->
                /\ ty.value.tag = "Box"
                /\ Len(ty.value.inner) = 1
                /\ Describes(ty.value.inner[1], v.boxed[1])

\* the values whose Types are on the stack: the inputs, then the literals
\* pushed so far
Sources == inputs \o [k \in 1..(pc - 1) |-> f[k].val[1]]

\* C14: from_value yields, for every value, the Type that describes it, at
\* every nesting depth of boxes, with the value's actual shape present.
FromValueTotal ==
    /\ result # "panic"
    /\ Len(stack) = Len(Sources)
    /\ \A k \in DOMAIN stack : Describes(stack[k], Sources[k])

FromValueTotalWitness ==
    /\ result = "some"
    /\ Len(stack) = 2
    /\ stack[1] = new(Box(new(Box(new(Num, <<0>>)), <<2, 3>>)), <<>>)
    /\ stack[2] = new(Function, <<2, 3>>)
    /\ inputs[1].boxed[1].boxed[1].kind = "Byte"
\* C16: a successful EndArray with popped marker d leaves the entries below
\* d as they were, takes the entries from d to the top, in order, as its
\* items, and leaves a stack of exactly d + 1 entries.
EndArrayFrame ==
    [][(Fetch("EndArray") /\ array # <<>>)
        => /\ result' = "running"
           /\ Len(stack') = array[Len(array)] + 1
           /\ \A k \in 1..array[Len(array)] : stack'[k] = stack[k]
           /\ Len(items') = Len(stack) - array[Len(array)]
           /\ \A k \in DOMAIN items' : items'[k] = stack[array[Len(array)] + k]]_vars

EndArrayFrameWitness ==
    /\ pc > 1
    /\ f[pc - 1].op = "EndArray"
    /\ Len(items) = 2
    /\ items[1] # items[2]
    /\ Len(stack) = 3
    /\ stack[1] # stack[2]

\* C17: BeginArray appends the stack length to open_arrays and leaves the
\* stack alone; a successful EndArray removes the last marker only, and the
\* one Type it pushes lies above the marker of the enclosing array, whose
\* items it joins.
LifoNesting ==
    [][/\ Fetch("BeginArray")
            => (array' = Append(array, Len(stack)) /\ stack' = stack)
       /\ (Fetch("EndArray") /\ array # <<>>)
            => /\ array' = SubSeq(array, 1, Len(array) - 1)
               /\ array' # <<>>
                    => /\ array'[Len(array')] < Len(stack')
                       /\ Len(stack') <= Len(stack) + 1]_vars

\* the inner literal [num, num-vector] was closed first and is the first of
\* the two items of the enclosing boxed array
LifoNestingWitness ==
    /\ Closed(TRUE)
    /\ array = <<>>
    /\ Len(items) = 2
    /\ items[1] = Type(Unknown, None)
    /\ f[pc - 2].op = "Push"
    /\ f[pc - 3] = EndArray(FALSE)

\* C18: check_type returns a stack exactly when every instruction is Push,
\* BeginArray or EndArray and no prefix of the function holds more EndArray
\* than BeginArray; arrays left open do not prevent it.
CountOp(op, n) == Cardinality({k \in 1..n : f[k].op = op})

Supported ==
    /\ \A k \in DOMAIN f : f[k].op \in {"Push", "BeginArray", "EndArray"}
    /\ \A n \in 0..Len(f) : CountOp("BeginArray", n) >= CountOp("EndArray", n)

ExactSuccess ==
    result # "running" => (result = "some" <=> Supported)

ExactSuccessWitness ==
    /\ result = "some"
    /\ Len(array) = 2
    /\ Closed(FALSE)

EqualFirst(its) == \A k \in DOMAIN its : its[k] = its[1]
EqualFirstShape(its) == \A k \in DOMAIN its : its[k].shape = its[1].shape

EndArrayByFirst(its, boxed) ==
    LET value == IF ~EqualFirst(its) THEN Unknown
                 ELSE IF its # <<>> THEN its[1].value
                 ELSE IF boxed THEN Unknown ELSE Num
    IN  IF boxed THEN new(Box(Type(value, None)), <<Len(its)>>)
        ELSE Type(value,
                  IF its # <<>> /\ EqualFirstShape(its) /\ its[1].shape # None
                  THEN Some(<<Len(its)>> \o its[1].shape[1])
                  ELSE None)

AdjacentIsAllEqual ==
    (pc > 1 /\ f[pc - 1].op = "EndArray")
    => /\ all_equal(items) <=> EqualFirst(items)
       /\ all_equal_shape(items) <=> EqualFirstShape(items)
       /\ Top(stack) = EndArrayByFirst(items, f[pc - 1].boxed)

AdjacentIsAllEqualWitness ==
    /\ Closed(FALSE)
    /\ Len(items) = 3
    /\ items[1] = items[2]
    /\ items[2] # items[3]
    /\ Top(stack) = new(Unknown, <<3>>)
====
